---- MODULE Spec2Model ----
(***************************************************************************)
(* Model of app/main.py: the label normalizer (normalize_label,            *)
(* to_template_key), the source extractors (extract_from_excel,            *)
(* extract_from_pdf), the template filler (_replace_text_block,            *)
(* _replace_in_paragraph) and the request handler (process).               *)
(*                                                                         *)
(* A Python str is a sequence of Unicode code points (integers).  None is  *)
(* the one-element sequence <<-1>>, which is no string.                    *)
(***************************************************************************)
EXTENDS Integers, Sequences, FiniteSets

VARIABLES
  label, tkey, rpc,
  source, rows, page, text, tl_failed, ocr_ran, lines, idx, result, xpc,
  raw_text, mapping, runs, runs0, replaced, fpc,
  upload, template_exists, tmpdir, written, extractor_calls, extracted,
  completed, output, ppc

vars == << label, tkey, rpc,
           source, rows, page, text, tl_failed, ocr_ran, lines, idx, result, xpc,
           raw_text, mapping, runs, runs0, replaced, fpc,
           upload, template_exists, tmpdir, written, extractor_calls, extracted,
           completed, output, ppc >>

resolveVars == << label, tkey, rpc >>
extractVars == << source, rows, page, text, tl_failed, ocr_ran, lines, idx, result, xpc >>
fillVars == << raw_text, mapping, runs, runs0, replaced, fpc >>
processVars == << upload, template_exists, tmpdir, written, extractor_calls,
                  extracted, completed, output, ppc >>

(***************************************************************************)
(* Characters.                                                             *)
(***************************************************************************)
LBRACE == 123
RBRACE == 125
FW_LBRACE == 65371
FW_RBRACE == 65373
_ZWS == 8203
COLON == 58
FW_COLON == 65306
SPACE == 32
FW_SPACE == 12288
NEWLINE == 10
BACKSLASH == 92

None == << -1 >>
EmptyStr == << >>

\* str.isspace(): the characters str.strip() removes and the regex \s matches.
WHITESPACE ==
  {9, 10, 11, 12, 13, 28, 29, 30, 31, 32, 133, 160, 5760, 8232, 8233, 8239,
   8287, 12288} \cup (8192..8202)

IsSpace(c) == c \in WHITESPACE

(***************************************************************************)
(* String helpers (Python str methods).                                    *)
(***************************************************************************)
RECURSIVE LStrip(_)
LStrip(s) ==
  IF s = << >> THEN s
  ELSE IF IsSpace(Head(s)) THEN LStrip(Tail(s)) ELSE s

RECURSIVE RStrip(_)
RStrip(s) ==
  IF s = << >> THEN s
  ELSE IF IsSpace(s[Len(s)]) THEN RStrip(SubSeq(s, 1, Len(s) - 1)) ELSE s

\* s.strip()
Strip(s) == RStrip(LStrip(s))

\* s.replace(a, b) for single characters a and b
ReplaceChar(s, a, b) == [i \in 1..Len(s) |-> IF s[i] = a THEN b ELSE s[i]]

\* s.startswith(p)
StartsWith(s, p) == Len(p) <= Len(s) /\ SubSeq(s, 1, Len(p)) = p

(***************************************************************************)
(* The canonical keys and the alias table, in declared order.              *)
(***************************************************************************)
PLACEHOLDER_KEYS ==
  << <<20505, 35036, 32773, 27663, 21517>>,
     <<12501, 12522, 12460, 12490>>,
     <<29983, 24180, 26376, 26085>>,
     <<24180, 40802>>,
     <<26368, 32066, 23398, 27508>>,
     <<38651, 35441, 30058, 21495>>,
     <<77, 65, 73, 76>>,
     <<37109, 20415, 30058, 21495>>,
     <<29694, 20303, 25152, 37117, 36947, 24220, 30476, 21517>>,
     <<29694, 24180, 21454>>,
     <<24076, 26395, 24180, 21454>>,
     <<23601, 26989, 21487, 33021, 26178, 26399>>,
     <<29694, 32887, 12398, 38599, 29992, 24418, 24907>>,
     <<12473, 12486, 12540, 12479, 12473>>,
     <<36939, 36578, 20813, 35377, 12398, 26377, 28961>>,
     <<33258, 23478, 29992, 36554, 12398, 26377, 28961>>,
     <<26082, 24448, 27508, 12398, 26377, 28961>>,
     <<25206, 39178, 95, 37197, 20598, 32773, 12398, 26377, 28961>>,
     <<22806, 22269, 31821, 95, 27704, 20303, 27177, 12398, 26377, 28961>>,
     <<29359, 32618, 27508, 12398, 26377, 28961>>,
     <<20837, 31038, 24460, 50, 12534, 26376, 12414, 12391, 12398, 36027, 29992>>,
     <<24076, 26395, 21220, 21209, 22320>>,
     <<20986, 24373, 95, 21487, 21542>>,
     <<20986, 24373, 95, 26399, 38291>>,
     <<20986, 24373, 95, 31684, 22258>>,
     <<36578, 23621, 95, 21487, 21542>>,
     <<36578, 23621, 95, 31684, 22258>>,
     <<32057, 20171, 20808, 20225, 26989, 21517, 95, 49>>,
     <<32057, 20171, 20808, 20225, 26989, 21517, 95, 50>>,
     <<32057, 20171, 20808, 20225, 26989, 21517, 95, 51>>,
     <<24076, 26395, 32887, 31278, 95, 49>>,
     <<24076, 26395, 32887, 31278, 95, 50>>,
     <<24076, 26395, 32887, 31278, 95, 51>>,
     <<24076, 26395, 36984, 32771, 26041, 27861>>,
     <<38754, 25509, 20505, 35036, 26085, 95, 49>>,
     <<38754, 25509, 20505, 35036, 26085, 95, 50>>,
     <<38754, 25509, 20505, 35036, 26085, 95, 51>>,
     <<31354, 30333, 26399, 38291>>,
     <<20013, 36884, 36864, 23398, 29702, 30001>>,
     <<30701, 26399, 38626, 32887, 29702, 30001>>,
     <<25512, 34214, 25991>> >>

ALIASES ==
  << <<<<25206, 39178, 65286, 37197, 20598, 32773, 12398, 26377, 28961>>,
        <<25206, 39178, 95, 37197, 20598, 32773, 12398, 26377, 28961>>>>,
     <<<<29694, 20303, 25152, 65288, 37117, 36947, 24220, 30476, 21517, 65289>>,
        <<29694, 20303, 25152, 37117, 36947, 24220, 30476, 21517>>>>,
     <<<<27704, 20303, 27177, 12398, 26377, 28961>>,
        <<22806, 22269, 31821, 95, 27704, 20303, 27177, 12398, 26377, 28961>>>>,
     <<<<20837, 31038, 24460, 12316, 50, 12534, 26376, 12398, 36027, 29992>>,
        <<20837, 31038, 24460, 50, 12534, 26376, 12414, 12391, 12398, 36027, 29992>>>> >>

NumKeys == Len(PLACEHOLDER_KEYS)
KeySet == {PLACEHOLDER_KEYS[i] : i \in 1..NumKeys}

\* k in PLACEHOLDER_KEYS
IsKey(s) == s \in KeySet

AliasIndex(s) == {i \in 1..Len(ALIASES) : ALIASES[i][1] = s}

normalize_label(lab) ==
  IF lab = None THEN EmptyStr
  ELSE LET s == ReplaceChar(ReplaceChar(Strip(lab), FW_COLON, COLON), FW_SPACE, SPACE)
       IN  IF AliasIndex(s) # {} THEN ALIASES[CHOOSE i \in AliasIndex(s) : TRUE][2]
           ELSE s

\* the first key of PLACEHOLDER_KEYS, from position i on, that lab starts with
RECURSIVE FirstPrefixKey(_, _)
FirstPrefixKey(lab, i) ==
  IF i > NumKeys THEN lab
  ELSE IF StartsWith(lab, PLACEHOLDER_KEYS[i]) THEN PLACEHOLDER_KEYS[i]
       ELSE FirstPrefixKey(lab, i + 1)

to_template_key_exact(lab0) == normalize_label(lab0)

to_template_key(lab0) ==
  LET lab == normalize_label(lab0)
  IN  IF IsKey(lab) THEN lab ELSE FirstPrefixKey(lab, 1)

(***************************************************************************)
(* Idle values of the variables a specification does not use.              *)
(***************************************************************************)
ResolveIdle == label = EmptyStr /\ tkey = EmptyStr /\ rpc = "idle"

ExtractIdle ==
  /\ source = "none" /\ rows = << >> /\ page = 0 /\ text = EmptyStr
  /\ tl_failed = FALSE /\ ocr_ran = FALSE /\ lines = << >> /\ idx = 0
  /\ result = << >> /\ xpc = "idle"

FillIdle ==
  /\ raw_text = EmptyStr /\ mapping = << >> /\ runs = << >> /\ runs0 = << >>
  /\ replaced = [raised |-> FALSE, t |-> << >>]
  /\ fpc = "idle"

ProcessIdle ==
  /\ upload = "none" /\ template_exists = FALSE /\ tmpdir = FALSE
  /\ written = FALSE /\ extractor_calls = << >> /\ extracted = << >>
  /\ completed = << >> /\ output = << >> /\ ppc = "idle"

(***************************************************************************)
(* Label resolution: to_template_key applied to one raw label.             *)
(***************************************************************************)
MaxAffixLen == 1

AffixChars == {SPACE, FW_SPACE, FW_COLON, 120, 49}

RECURSIVE StringsOver(_, _)
StringsOver(chars, n) ==
  IF n = 0 THEN {EmptyStr}
  ELSE LET shorter == StringsOver(chars, n - 1)
       IN  shorter \cup {<< c >> \o t : c \in chars, t \in {u \in shorter : Len(u) = n - 1}}

LabelBases ==
  KeySet \cup {ALIASES[i][1] : i \in 1..Len(ALIASES)} \cup {EmptyStr, << 122, 122 >>}

Labels ==
  {pre \o base \o suf : pre \in StringsOver(AffixChars, MaxAffixLen),
                        base \in LabelBases,
                        suf \in StringsOver(AffixChars, MaxAffixLen)}

ResolveInit ==
  /\ label \in Labels /\ tkey = EmptyStr /\ rpc = "call"
  /\ ExtractIdle /\ FillIdle /\ ProcessIdle

Resolve ==
  /\ rpc = "call"
  /\ tkey' = to_template_key(label)
  /\ rpc' = "done"
  /\ UNCHANGED << label, extractVars, fillVars, processVars >>

ResolveNext == Resolve

SpecResolve == ResolveInit /\ [][ResolveNext]_vars

\* the positions of the canonical keys that the normalized label starts with
PrefixKeys(lab) == {i \in 1..NumKeys : StartsWith(lab, PLACEHOLDER_KEYS[i])}

ProperExtension(lab, k) == StartsWith(lab, k) /\ Len(lab) > Len(k)

\* C4: a label whose normalized text properly extends a key K, no other key
\* being a longer prefix of it, resolves to K; of several prefix keys the first
\* in declared order is returned; with no prefix key the normalized label is
\* returned unchanged.
C4_PrefixResolution ==
  rpc = "done" =>
    LET lab == normalize_label(label)
        P == PrefixKeys(lab)
    IN  /\ \A i \in 1..NumKeys :
             ( /\ ProperExtension(lab, PLACEHOLDER_KEYS[i])
               /\ \A j \in P : Len(PLACEHOLDER_KEYS[j]) <= Len(PLACEHOLDER_KEYS[i]) )
             => tkey = PLACEHOLDER_KEYS[i]
        /\ P # {} => tkey = PLACEHOLDER_KEYS[CHOOSE i \in P : \A j \in P : i <= j]
        /\ P = {} => tkey = lab

\* a label with trailing text after a key has been resolved to that key
C4_Witness ==
  /\ rpc = "done"
  /\ ProperExtension(normalize_label(label), tkey)
  /\ IsKey(tkey)
  /\ label # normalize_label(label)

(***************************************************************************)
(* Extractors.  result is the dict under construction: a function from the *)
(* keys inserted so far to their values.                                   *)
(***************************************************************************)
EmptyDict == << >>

\* d[k] = v
DictSet(d, k, v) == [x \in (DOMAIN d) \cup {k} |-> IF x = k THEN v ELSE d[x]]

(***************************************************************************)
(* extract_from_excel.  A cell is None, a str or an int; a row is the      *)
(* tuple of cell values iter_rows(values_only=True) yields.                *)
(***************************************************************************)
NoneCell == [kind |-> "none", s |-> EmptyStr, n |-> 0]
StrCell(s) == [kind |-> "str", s |-> s, n |-> 0]
IntCell(n) == [kind |-> "int", s |-> EmptyStr, n |-> n]

\* bool(cell)
Truthy(c) ==
  CASE c.kind = "none" -> FALSE
    [] c.kind = "str" -> c.s # EmptyStr
    [] c.kind = "int" -> c.n # 0

\* str(cell), for the one-digit integers the rows hold
PyStr(c) ==
  CASE c.kind = "none" -> << 78, 111, 110, 101 >>
    [] c.kind = "str" -> c.s
    [] c.kind = "int" -> << 48 + c.n >>

\* key, val = (row[0], row[1] if len(row) > 1 else None)
RowKey(row) == row[1]
RowVal(row) == IF Len(row) > 1 THEN row[2] ELSE NoneCell

\* a variant that keeps any resolved label, canonical or not
ExcelRowResult_anykey(res, row) ==
  IF row = << >> THEN res
  ELSE IF Truthy(RowKey(row)) /\ Truthy(RowVal(row))
       THEN DictSet(res, to_template_key(PyStr(RowKey(row))), Strip(PyStr(RowVal(row))))
       ELSE res

\* the body of the loop over the rows: the result after one more row
ExcelRowResult(res, row) ==
  IF row = << >> THEN res
  ELSE IF Truthy(RowKey(row)) /\ Truthy(RowVal(row))
       THEN LET k == to_template_key(PyStr(RowKey(row)))
            IN  IF IsKey(k) THEN DictSet(res, k, Strip(PyStr(RowVal(row)))) ELSE res
       ELSE res

MaxRows == 2

KEY_AGE == PLACEHOLDER_KEYS[4]
KEY_MAIL == PLACEHOLDER_KEYS[7]

ExcelKeyCells ==
  {NoneCell, StrCell(KEY_MAIL), StrCell(<< SPACE >> \o KEY_MAIL \o << 120 >>),
   StrCell(<< 122, 122 >>)}

ExcelValCells ==
  {NoneCell, StrCell(<< SPACE >>), StrCell(<< SPACE, 98, SPACE >>), IntCell(0),
   IntCell(7)}

ExcelRows ==
  {<< >>} \cup {<< k >> : k \in {StrCell(KEY_MAIL)}}
          \cup {<< k, v >> : k \in ExcelKeyCells, v \in ExcelValCells}

ExcelInit ==
  /\ source = "excel" /\ rows = << >> /\ page = 0 /\ text = EmptyStr
  /\ tl_failed = FALSE /\ ocr_ran = FALSE /\ lines = << >> /\ idx = 0
  /\ result = EmptyDict /\ xpc = "rows"

\* one iteration of: for row in ws.iter_rows(min_row=1, values_only=True)
ExcelRow ==
  /\ source = "excel" /\ xpc = "rows" /\ Len(rows) < MaxRows
  /\ \E row \in ExcelRows :
       /\ rows' = Append(rows, row)
       /\ result' = ExcelRowResult(result, row)
  /\ idx' = idx + 1
  /\ UNCHANGED << source, page, text, tl_failed, ocr_ran, lines, xpc,
                  resolveVars, fillVars, processVars >>

\* the sheet has no more rows: return result
ExcelReturn ==
  /\ source = "excel" /\ xpc = "rows"
  /\ xpc' = "returned"
  /\ UNCHANGED << source, rows, page, text, tl_failed, ocr_ran, lines, idx, result,
                  resolveVars, fillVars, processVars >>

(***************************************************************************)
(* extract_from_pdf.                                                       *)
(***************************************************************************)
\* the number of whitespace characters of s from position i on
RECURSIVE WsRun(_, _)
WsRun(s, i) ==
  IF i > Len(s) THEN 0
  ELSE IF IsSpace(s[i]) THEN 1 + WsRun(s, i + 1) ELSE 0

IsColon(c) == c = COLON \/ c = FW_COLON

\* re.match(r"^\s*(.+?)\s*[:：]\s*(.+?)\s*$", line) with the leading \s* taking
\* a characters and group 1 ending at b: the colon must follow the whitespace
\* after b, and at least one character must follow the colon.
GroupOneFits(s, a, b) ==
  LET c == b + WsRun(s, b + 1)
  IN  c + 1 < Len(s) /\ IsColon(s[c + 1])

\* The backtracking order of the match: the leading \s* is greedy (longest
\* first), group 1 is lazy (shortest first).
MatchStarts(s) ==
  {a \in 0..WsRun(s, 1) : \E b \in (a + 1)..Len(s) : GroupOneFits(s, a, b)}

NoMatch == [matched |-> FALSE, k |-> EmptyStr, v |-> EmptyStr]

\* m.group(1), m.group(2) of the match, or NoMatch.  After the colon \s* is
\* greedy but leaves one character to group 2; group 2 is lazy and ends where
\* only whitespace follows.
MatchLine(s) ==
  IF MatchStarts(s) = {} THEN NoMatch
  ELSE LET a == CHOOSE x \in MatchStarts(s) : \A y \in MatchStarts(s) : y <= x
           b == CHOOSE x \in (a + 1)..Len(s) :
                  /\ GroupOneFits(s, a, x)
                  /\ \A y \in (a + 1)..(x - 1) : ~GroupOneFits(s, a, y)
           c == b + WsRun(s, b + 1)
           wsAfter == WsRun(s, c + 2)
           d == IF c + 1 + wsAfter < Len(s) THEN c + 1 + wsAfter ELSE Len(s) - 1
           e == CHOOSE x \in (d + 1)..Len(s) :
                  /\ x + WsRun(s, x + 1) = Len(s)
                  /\ \A y \in (d + 1)..(x - 1) : y + WsRun(s, y + 1) # Len(s)
       IN  [matched |-> TRUE, k |-> SubSeq(s, a + 1, b), v |-> SubSeq(s, d + 1, e)]

\* text.splitlines(), for texts whose only line boundary is "\n"
RECURSIVE SplitLines(_, _)
SplitLines(s, cur) ==
  IF s = << >> THEN (IF cur = << >> THEN << >> ELSE << cur >>)
  ELSE IF Head(s) = NEWLINE THEN << cur >> \o SplitLines(Tail(s), << >>)
       ELSE SplitLines(Tail(s), Append(cur, Head(s)))

\* "\n".join(texts)
RECURSIVE JoinLines(_)
JoinLines(ts) ==
  IF ts = << >> THEN EmptyStr
  ELSE IF Len(ts) = 1 THEN ts[1]
       ELSE ts[1] \o << NEWLINE >> \o JoinLines(Tail(ts))

\* a variant that keeps the first value of a key
PdfLineResult_firstwins(res, line) ==
  IF Strip(line) = EmptyStr THEN res
  ELSE LET m == MatchLine(line)
       IN  IF ~m.matched THEN res
           ELSE LET k == to_template_key(m.k)
                IN  IF IsKey(k) /\ m.v # EmptyStr /\ k \notin DOMAIN res
                    THEN DictSet(res, k, Strip(m.v))
                    ELSE res

\* the body of the loop over the lines: the result after one more line
PdfLineResult(res, line) ==
  IF Strip(line) = EmptyStr THEN res
  ELSE LET m == MatchLine(line)
       IN  IF ~m.matched THEN res
           ELSE LET k == to_template_key(m.k)
                IN  IF IsKey(k) /\ m.v # EmptyStr THEN DictSet(res, k, Strip(m.v))
                    ELSE res

MaxPages == 2

\* the outcome of a call that raises
Raise == << -2 >>

\* lines of a page: label and value around an ASCII or full-width colon, with
\* and without whitespace, a value of whitespace only, a label that is no
\* key, a line without colon, a line without value, an empty line
PdfLines ==
  { KEY_MAIL \o << COLON, 97 >>,
    << SPACE >> \o KEY_MAIL \o << SPACE, FW_COLON, SPACE, 98, SPACE, 99, SPACE >>,
    KEY_MAIL \o << SPACE, 120, COLON, SPACE >>,
    << 122, 122, COLON, 97 >>,
    KEY_MAIL,
    KEY_MAIL \o << COLON >>,
    EmptyStr }

\* what page.extract_text() does: returns a str, returns None, or raises
PageOutcomes == PdfLines \cup {None, Raise}

\* what pytesseract.image_to_string returns for one image
OcrTexts == {EmptyStr, KEY_MAIL \o << COLON, 111 >>, KEY_AGE \o << FW_COLON, 57 >>}

RECURSIVE SeqsUpTo(_, _)
SeqsUpTo(S, n) ==
  IF n = 0 THEN {<< >>}
  ELSE LET shorter == SeqsUpTo(S, n - 1)
       IN  shorter \cup {Append(t, x) : t \in {u \in shorter : Len(u) = n - 1}, x \in S}

PdfInit ==
  /\ source = "pdf" /\ rows = << >> /\ page = 0 /\ text = EmptyStr
  /\ tl_failed = FALSE /\ ocr_ran = FALSE /\ lines = << >> /\ idx = 0
  /\ result = EmptyDict /\ xpc = "open"

\* reader = PdfReader(str(pdf_path)): succeeds, or raises into except/pass
PdfOpen ==
  /\ source = "pdf" /\ xpc = "open"
  /\ \/ xpc' = "pages" /\ UNCHANGED tl_failed
     \/ xpc' = "check" /\ tl_failed' = TRUE
  /\ UNCHANGED << source, rows, page, text, ocr_ran, lines, idx, result,
                  resolveVars, fillVars, processVars >>

\* one iteration of: for page in reader.pages
PdfPage ==
  /\ source = "pdf" /\ xpc = "pages" /\ page < MaxPages
  /\ \E out \in PageOutcomes :
       \/ /\ out = Raise
          /\ tl_failed' = TRUE /\ xpc' = "check"
          /\ UNCHANGED << text, page >>
       \/ /\ out # Raise
          /\ text' = text \o (IF out = None THEN EmptyStr ELSE out) \o << NEWLINE >>
          /\ page' = page + 1
          /\ UNCHANGED << tl_failed, xpc >>
  /\ UNCHANGED << source, rows, ocr_ran, lines, idx, result,
                  resolveVars, fillVars, processVars >>

\* reader.pages is exhausted
PdfPagesEnd ==
  /\ source = "pdf" /\ xpc = "pages"
  /\ xpc' = "check"
  /\ UNCHANGED << source, rows, page, text, tl_failed, ocr_ran, lines, idx, result,
                  resolveVars, fillVars, processVars >>

\* if not text.strip(): go to the OCR fallback, else split the text
PdfCheck ==
  /\ source = "pdf" /\ xpc = "check"
  /\ \/ /\ Strip(text) = EmptyStr
        /\ xpc' = "ocr"
        /\ UNCHANGED lines
     \/ /\ Strip(text) # EmptyStr
        /\ lines' = SplitLines(text, EmptyStr)
        /\ xpc' = "lines"
  /\ UNCHANGED << source, rows, page, text, tl_failed, ocr_ran, idx, result,
                  resolveVars, fillVars, processVars >>

\* convert_from_path + image_to_string per image: raises, or yields the texts
PdfOcr ==
  /\ source = "pdf" /\ xpc = "ocr"
  /\ \/ /\ xpc' = "raised"
        /\ UNCHANGED << text, ocr_ran, lines >>
     \/ \E ocr_texts \in SeqsUpTo(OcrTexts, MaxPages) :
          /\ text' = JoinLines(ocr_texts)
          /\ ocr_ran' = TRUE
          /\ lines' = SplitLines(JoinLines(ocr_texts), EmptyStr)
          /\ xpc' = "lines"
  /\ UNCHANGED << source, rows, page, tl_failed, idx, result,
                  resolveVars, fillVars, processVars >>

\* one iteration of: for line in text.splitlines()
PdfLine ==
  /\ source = "pdf" /\ xpc = "lines" /\ idx < Len(lines)
  /\ result' = PdfLineResult(result, lines[idx + 1])
  /\ idx' = idx + 1
  /\ UNCHANGED << source, rows, page, text, tl_failed, ocr_ran, lines, xpc,
                  resolveVars, fillVars, processVars >>

PdfReturn ==
  /\ source = "pdf" /\ xpc = "lines" /\ idx = Len(lines)
  /\ xpc' = "returned"
  /\ UNCHANGED << source, rows, page, text, tl_failed, ocr_ran, lines, idx, result,
                  resolveVars, fillVars, processVars >>

ExtractInit ==
  /\ ExcelInit \/ PdfInit
  /\ ResolveIdle /\ FillIdle /\ ProcessIdle

ExtractNext ==
  \/ ExcelRow \/ ExcelReturn
  \/ PdfOpen \/ PdfPage \/ PdfPagesEnd \/ PdfCheck \/ PdfOcr \/ PdfLine \/ PdfReturn

SpecExtract == ExtractInit /\ [][ExtractNext]_vars

(***************************************************************************)
(* Properties of the extractors.                                           *)
(***************************************************************************)
\* the rows or lines given to the extractor
NumItems == IF source = "excel" THEN Len(rows) ELSE Len(lines)

\* a valid row: label and value both present and truthy
ExcelValid(row) == row # << >> /\ Truthy(RowKey(row)) /\ Truthy(RowVal(row))

\* a valid line: not blank and of the form label, colon, value
PdfValid(line) == Strip(line) # EmptyStr /\ MatchLine(line).matched

ItemValid(i) == IF source = "excel" THEN ExcelValid(rows[i]) ELSE PdfValid(lines[i])

\* what the label of a valid item resolves to
ItemKey(i) ==
  IF source = "excel" THEN to_template_key(PyStr(RowKey(rows[i])))
  ELSE to_template_key(MatchLine(lines[i]).k)

\* the trimmed value of a valid item
ItemValue(i) ==
  IF source = "excel" THEN Strip(PyStr(RowVal(rows[i])))
  ELSE Strip(MatchLine(lines[i]).v)

\* for each item, the key its label resolves to, or None for an item that is
\* not valid
ResolvedKeys == [i \in 1..NumItems |-> IF ItemValid(i) THEN ItemKey(i) ELSE None]

Occurrences(K) == {i \in 1..NumItems : ResolvedKeys[i] = K}

\* C1: after every processed row or line, and so at return, every key of the
\* result is a canonical key; a label that resolves to no canonical key adds
\* no key.
C1_ClosedSet == DOMAIN result \subseteq KeySet

\* a spreadsheet with a valid row whose label is not canonical and a valid row
\* whose label is: the extractor has returned a non-empty result
C1_Witness ==
  /\ source = "excel" /\ xpc = "returned"
  /\ DOMAIN result # {}
  /\ \E i \in 1..Len(rows) : ExcelValid(rows[i]) /\ ~IsKey(ItemKey(i))

\* C2: at return the value of a canonical key K is the trimmed value of the
\* last valid row or line whose label resolves to K, and K is absent iff no
\* valid row or line resolves to K.
C2_LastOccurrenceWins ==
  xpc = "returned" =>
    LET resolved == ResolvedKeys
    IN  \A K \in KeySet :
          LET S == {i \in 1..NumItems : resolved[i] = K}
          IN  /\ K \in DOMAIN result <=> S # {}
              /\ S # {} => result[K] = ItemValue(CHOOSE i \in S : \A j \in S : j <= i)

\* a PDF text with two valid lines of the same key and different values
C2_Witness ==
  /\ source = "pdf" /\ xpc = "returned"
  /\ \E K \in KeySet :
       \E i, j \in Occurrences(K) :
         i < j /\ ItemValue(i) # ItemValue(j) /\ result[K] = ItemValue(j)

\* C3: every value stored in the result is a non-empty trimmed string; a row
\* or line whose value is empty after trimming creates no entry and overwrites
\* none.
C3_NoEmptyValue == \A K \in DOMAIN result : result[K] # EmptyStr

\* C8: whenever the text-layer extraction failed with an exception, the text
\* that is parsed was produced by the OCR fallback.
C8_FailureTriggersOcr ==
  (source = "pdf" /\ tl_failed /\ xpc \in {"lines", "returned"}) => ocr_ran

(***************************************************************************)
(* Template filler.  To tell what became of each character of a paragraph  *)
(* text, the text is carried as a sequence of pairs << character, origin   *)
(* >>: origin is the position of the character in the raw text, and 0 for  *)
(* a character that a substitution inserted.  The str the code holds is    *)
(* Chars of it; matching reads the characters only.                        *)
(***************************************************************************)
Tagged(s) == [i \in 1..Len(s) |-> << s[i], i >>]
Inserted(s) == [i \in 1..Len(s) |-> << s[i], 0 >>]
Chars(t) == [i \in 1..Len(t) |-> t[i][1]]
Origins(t) == {t[i][2] : i \in 1..Len(t)} \ {0}

\* s.replace("｛", "{").replace("｝", "}").replace(_ZWS, "")
NotZws(p) == p[1] # _ZWS

NormalizeTagged(t) ==
  LET braces == [i \in 1..Len(t) |->
                   IF t[i][1] = FW_LBRACE THEN << LBRACE, t[i][2] >>
                   ELSE IF t[i][1] = FW_RBRACE THEN << RBRACE, t[i][2] >>
                   ELSE t[i]]
  IN  SelectSeq(braces, NotZws)

_normalize_text(s) == Chars(NormalizeTagged(Tagged(s)))

\* Where a match of \{\{\s*K\s*\}\} that starts at position i of s ends, or 0
\* when there is none.  K starts with no whitespace and holds no brace, so
\* each \s* takes the whole run of whitespace before it.
MatchEnd(s, i, k) ==
  IF ~(i + 1 <= Len(s) /\ s[i] = LBRACE /\ s[i + 1] = LBRACE) THEN 0
  ELSE LET ks == i + 2 + WsRun(s, i + 2)
           ke == ks + Len(k) - 1
       IN  IF ~(ke <= Len(s) /\ SubSeq(s, ks, ke) = k) THEN 0
           ELSE LET b == ke + 1 + WsRun(s, ke + 1)
                IN  IF b + 1 <= Len(s) /\ s[b] = RBRACE /\ s[b + 1] = RBRACE
                    THEN b + 1 ELSE 0

\* pattern.sub(repl, text) from position i on: the scan takes the leftmost
\* match at or after i, copies the text before it, puts repl (the expanded
\* replacement) in its place and goes on after the end of the match.
RECURSIVE SubFrom(_, _, _, _)
SubFrom(t, i, k, repl) ==
  LET s == Chars(t)
      starts == {j \in i..Len(t) : MatchEnd(s, j, k) # 0}
  IN  IF starts = {} THEN SubSeq(t, i, Len(t))
      ELSE LET j == CHOOSE x \in starts : \A y \in starts : x <= y
           IN  SubSeq(t, i, j - 1) \o Inserted(repl)
                 \o SubFrom(t, MatchEnd(s, j, k) + 1, k, repl)

\* The escapes of a replacement template that stand for one character:
\* \a \b \f \n \r \t \v and \\ itself.
TemplateEscapes == {97, 98, 102, 110, 114, 116, 118, BACKSLASH}

EscapeChar(c) ==
  CASE c = 97 -> 7 [] c = 98 -> 8 [] c = 102 -> 12 [] c = 110 -> 10
    [] c = 114 -> 13 [] c = 116 -> 9 [] c = 118 -> 11 [] c = BACKSLASH -> BACKSLASH

IsAsciiLetter(c) == c \in (65..90) \cup (97..122)
IsDigit(c) == c \in 48..57

\* How re expands a str replacement: a backslash escape is processed, and a
\* bad escape (an ASCII letter that is no escape, a reference to a group the
\* pattern does not have, a backslash at the end) raises re.error.  The
\* values of the model hold no \g<...> and no backslash before two digits.
RECURSIVE ExpandTemplate(_)
ExpandTemplate(v) ==
  IF v = << >> THEN [raised |-> FALSE, s |-> EmptyStr]
  ELSE IF Head(v) # BACKSLASH
       THEN LET r == ExpandTemplate(Tail(v))
            IN  [raised |-> r.raised, s |-> << Head(v) >> \o r.s]
       ELSE IF Len(v) = 1 THEN [raised |-> TRUE, s |-> EmptyStr]
            ELSE LET c == v[2]
                     r == ExpandTemplate(SubSeq(v, 3, Len(v)))
                 IN  IF c \in TemplateEscapes
                     THEN [raised |-> r.raised, s |-> << EscapeChar(c) >> \o r.s]
                     ELSE IF c = 48
                     THEN [raised |-> r.raised, s |-> << 0 >> \o r.s]
                     ELSE IF IsAsciiLetter(c) \/ IsDigit(c)
                     THEN [raised |-> TRUE, s |-> EmptyStr]
                     ELSE [raised |-> r.raised, s |-> << BACKSLASH, c >> \o r.s]

\* "" if v is None else str(v)
ReplacementOf(v) == IF v = None THEN EmptyStr ELSE v

\* a variant of the iteration that passes over an entry whose value is falsy
ReplaceEntry_skipempty(t, entry) ==
  IF ReplacementOf(entry[2]) = EmptyStr THEN [raised |-> FALSE, t |-> t]
  ELSE LET repl == ExpandTemplate(ReplacementOf(entry[2]))
       IN  IF repl.raised THEN [raised |-> TRUE, t |-> << >>]
           ELSE [raised |-> FALSE, t |-> SubFrom(t, 1, entry[1], repl.s)]

\* One iteration of the loop of _replace_text_block, for the entry
\* << k, v >> of the mapping: raised, or the text after the substitution.
ReplaceEntry(t, entry) ==
  LET repl == ExpandTemplate(ReplacementOf(entry[2]))
  IN  IF repl.raised THEN [raised |-> TRUE, t |-> << >>]
      ELSE [raised |-> FALSE, t |-> SubFrom(t, 1, entry[1], repl.s)]

\* The iterations for the entries lo..hi of the mapping, in order; the first
\* one that raises ends the loop.  mapping is the dict in its iteration order:
\* a sequence of << key, value >>.  (The range is halved to keep the
\* evaluation shallow; the entries are still taken one after the other.)
RECURSIVE ReplaceRange(_, _, _, _)
ReplaceRange(t, m, lo, hi) ==
  IF lo > hi THEN [raised |-> FALSE, t |-> t]
  ELSE IF lo = hi THEN ReplaceEntry(t, m[lo])
  ELSE LET mid == (lo + hi) \div 2
           left == ReplaceRange(t, m, lo, mid)
       IN  IF left.raised THEN left ELSE ReplaceRange(left.t, m, mid + 1, hi)

\* _replace_text_block(raw_text, mapping): raised, or the text returned
_replace_text_block(raw, m) == ReplaceRange(NormalizeTagged(Tagged(raw)), m, 1, Len(m))

\* "".join(r.text for r in paragraph.runs)
RECURSIVE Concat(_)
Concat(ts) == IF ts = << >> THEN EmptyStr ELSE Head(ts) \o Concat(Tail(ts))

\* a variant that leaves the later runs as they are
_replace_in_paragraph_keepruns(rs, m) ==
  IF rs = << >> THEN [raised |-> FALSE, runs |-> rs]
  ELSE LET joined == Concat(rs)
           r == _replace_text_block(joined, m)
       IN  IF r.raised THEN [raised |-> TRUE, runs |-> rs]
           ELSE IF Chars(r.t) # joined
                THEN [raised |-> FALSE,
                      runs |-> [i \in 1..Len(rs) |-> IF i = 1 THEN Chars(r.t) ELSE rs[i]]]
                ELSE [raised |-> FALSE, runs |-> rs]

\* _replace_in_paragraph(paragraph, mapping): the run texts afterwards, or
\* raised with the runs as they were
_replace_in_paragraph(rs, m) ==
  IF rs = << >> THEN [raised |-> FALSE, runs |-> rs]
  ELSE LET joined == Concat(rs)
           r == _replace_text_block(joined, m)
       IN  IF r.raised THEN [raised |-> TRUE, runs |-> rs]
           ELSE IF Chars(r.t) # joined
                THEN [raised |-> FALSE,
                      runs |-> [i \in 1..Len(rs) |-> IF i = 1 THEN Chars(r.t) ELSE EmptyStr]]
                ELSE [raised |-> FALSE, runs |-> rs]

(***************************************************************************)
(* Inputs of the filler.                                                   *)
(***************************************************************************)
MaxPieces == 2
MaxRuns == 3

\* a key without an entry in the mapping
Absent == << -3 >>

Placeholder(k) == << LBRACE, LBRACE >> \o k \o << RBRACE, RBRACE >>

AgeValues ==
  {Absent, EmptyStr, << 97 >>, << BACKSLASH, 110 >>, << LBRACE, LBRACE >> \o KEY_MAIL}

MailValues == {Absent, EmptyStr, None, << 98 >>, << BACKSLASH, 49 >>}

\* a dict with entries for 年齢 and MAIL only, in that order
PartialMapping(a, m) ==
  (IF a = Absent THEN << >> ELSE << << KEY_AGE, a >> >>)
    \o (IF m = Absent THEN << >> ELSE << << KEY_MAIL, m >> >>)

\* a value no other key has
DefaultValue(i) == << 118, 64 + i >>

\* a dict with an entry for every canonical key, in declared order; a key
\* without a given value gets "" (as process completes the extracted
\* mapping) or, with distinct, a value of its own
FullMapping(a, m, distinct) ==
  [i \in 1..NumKeys |->
     << PLACEHOLDER_KEYS[i],
        IF PLACEHOLDER_KEYS[i] = KEY_AGE /\ a # Absent THEN a
        ELSE IF PLACEHOLDER_KEYS[i] = KEY_MAIL /\ m # Absent THEN m
        ELSE IF distinct THEN DefaultValue(i) ELSE EmptyStr >>]

Mappings ==
  {PartialMapping(a, m) : a \in AgeValues, m \in MailValues}
    \cup {FullMapping(a, m, d) : a \in AgeValues, m \in MailValues, d \in BOOLEAN}

TextPieces ==
  { Placeholder(KEY_AGE),
    << LBRACE, LBRACE, SPACE >> \o KEY_MAIL \o << SPACE, RBRACE, RBRACE >>,
    << FW_LBRACE, FW_LBRACE >> \o KEY_MAIL \o << FW_RBRACE, FW_RBRACE >>,
    Placeholder(<< 122, 122 >>),
    << 120 >>,
    << RBRACE, RBRACE >>,
    << FW_LBRACE >>,
    << _ZWS, 121 >> }

Texts == {Concat(ps) : ps \in SeqsUpTo(TextPieces, MaxPieces)}

RunTexts ==
  {EmptyStr, << LBRACE, LBRACE >>, KEY_MAIL, << RBRACE, RBRACE >>, << 120, FW_RBRACE >>}

ParagraphMappings ==
  {PartialMapping(Absent, << 98 >>), FullMapping(Absent, Absent, FALSE),
   FullMapping(<< 97 >>, << 98 >>, FALSE), FullMapping(Absent, << BACKSLASH, 49 >>, FALSE)}

BlockInit ==
  /\ raw_text \in Texts /\ mapping \in Mappings
  /\ runs = << >> /\ runs0 = << >>
  /\ replaced = [raised |-> FALSE, t |-> << >>]
  /\ fpc = "block_call"

ParagraphInit ==
  /\ raw_text = EmptyStr /\ mapping \in ParagraphMappings
  /\ runs0 \in SeqsUpTo(RunTexts, MaxRuns) /\ runs = runs0
  /\ replaced = [raised |-> FALSE, t |-> << >>]
  /\ fpc = "para_call"

FillInit ==
  /\ BlockInit \/ ParagraphInit
  /\ ResolveIdle /\ ExtractIdle /\ ProcessIdle

\* a call of _replace_text_block(raw_text, mapping)
ReplaceTextBlock ==
  /\ fpc = "block_call"
  /\ replaced' = _replace_text_block(raw_text, mapping)
  /\ \/ replaced'.raised /\ fpc' = "block_raised"
     \/ ~replaced'.raised /\ fpc' = "block_done"
  /\ UNCHANGED << raw_text, mapping, runs, runs0,
                  resolveVars, extractVars, processVars >>

\* a call of _replace_in_paragraph(paragraph, mapping)
ReplaceInParagraph ==
  /\ fpc = "para_call"
  /\ LET r == _replace_in_paragraph(runs, mapping)
     IN  /\ runs' = r.runs
         /\ \/ r.raised /\ fpc' = "para_raised"
            \/ ~r.raised /\ fpc' = "para_done"
  /\ UNCHANGED << raw_text, mapping, runs0, replaced,
                  resolveVars, extractVars, processVars >>

FillNext == ReplaceTextBlock \/ ReplaceInParagraph

SpecFill == FillInit /\ [][FillNext]_vars

(***************************************************************************)
(* Properties of the filler.                                               *)
(***************************************************************************)
\* the raw text as the matching sees it
NormalizedRaw == NormalizeTagged(Tagged(raw_text))

\* where the placeholder tokens of key k start in the normalized raw text
TokenStarts(k) ==
  {i \in 1..Len(NormalizedRaw) : MatchEnd(Chars(NormalizedRaw), i, k) # 0}

\* the positions of the raw text that the placeholder tokens of key k take
TokenPositions(k) ==
  UNION {NormalizedRaw[i][2]..NormalizedRaw[MatchEnd(Chars(NormalizedRaw), i, k)][2] :
           i \in TokenStarts(k)}

CanonicalTokenPositions == UNION {TokenPositions(k) : k \in KeySet}

\* the values the mapping holds for key k (none, or one)
ValuesOf(m, k) == {m[i][2] : i \in {j \in 1..Len(m) : m[j][1] = k}}

HasToken(s) == \E k \in KeySet : \E i \in 1..Len(s) : MatchEnd(s, i, k) # 0

\* every canonical key has a value, a str that holds no placeholder token and
\* that no other key has
DistinctPlaceholderFree(m) ==
  /\ {m[i][1] : i \in 1..Len(m)} = KeySet
  /\ \A i, j \in 1..Len(m) : i # j => m[i][1] # m[j][1] /\ m[i][2] # m[j][2]
  /\ \A i \in 1..Len(m) : m[i][2] # None /\ ~HasToken(m[i][2])

\* The text s with every placeholder token of a key of m replaced, in one
\* pass from left to right, by the characters of the value of the key.
RECURSIVE SimultaneousFill(_, _, _)
SimultaneousFill(s, m, i) ==
  LET hits == {<< j, e >> \in (i..Len(s)) \X (1..Len(m)) : MatchEnd(s, j, m[e][1]) # 0}
  IN  IF hits = {} THEN SubSeq(s, i, Len(s))
      ELSE LET h == CHOOSE x \in hits : \A y \in hits : x[1] <= y[1]
           IN  SubSeq(s, i, h[1] - 1) \o ReplacementOf(m[h[2]][2])
                 \o SimultaneousFill(s, m, MatchEnd(s, h[1], m[h[2]][1]) + 1)

\* C5: with a distinct, placeholder-free value for every canonical key,
\* _replace_text_block returns the text with each placeholder replaced by
\* exactly the characters of the value of its key, and no placeholder token of
\* a canonical key remains.
C5_RoundTrip ==
  (fpc \in {"block_done", "block_raised"} /\ DistinctPlaceholderFree(mapping)) =>
    /\ ~replaced.raised
    /\ Chars(replaced.t) = SimultaneousFill(_normalize_text(raw_text), mapping, 1)
    /\ ~HasToken(Chars(replaced.t))

OutsideTokens(p) == p[2] \notin CanonicalTokenPositions
SurvivorOutsideTokens(p) == p[2] # 0 /\ p[2] \notin CanonicalTokenPositions

\* C7: every character of the raw text outside the placeholder tokens of the
\* canonical keys is in the returned text, unchanged and in the same order.
C7_SurroundingTextPreserved ==
  fpc = "block_done" =>
    SelectSeq(replaced.t, SurvivorOutsideTokens) = SelectSeq(Tagged(raw_text), OutsideTokens)

\* C10: _replace_in_paragraph keeps the number of runs; if the substituted
\* text differs from the joined run texts the first run holds all of it and
\* the later runs are empty, else no run changes; a paragraph without runs is
\* untouched; the run texts afterwards join to the substituted text.
C10_RunStructure ==
  /\ fpc = "para_raised" => runs = runs0
  /\ fpc = "para_done" =>
       LET joined == Concat(runs0)
           substituted == Chars(_replace_text_block(joined, mapping).t)
       IN  /\ Len(runs) = Len(runs0)
           /\ runs0 = << >> => runs = << >>
           /\ (runs0 # << >> /\ substituted # joined) =>
                /\ runs[1] = substituted
                /\ \A i \in 2..Len(runs) : runs[i] = EmptyStr
           /\ substituted = joined => runs = runs0
           /\ Concat(runs) = substituted

\* a placeholder split over three runs has been replaced by its value
C10_Witness ==
  /\ fpc = "para_done"
  /\ runs0 = << << LBRACE, LBRACE >>, KEY_MAIL, << RBRACE, RBRACE >> >>
  /\ runs = << << 98 >>, EmptyStr, EmptyStr >>

(***************************************************************************)
(* process: the handler of POST /process, one step per statement.          *)
(***************************************************************************)
\* extract_from_excel on a sheet with the given rows
RECURSIVE ExcelResult(_, _)
ExcelResult(res, rs) ==
  IF rs = << >> THEN res ELSE ExcelResult(ExcelRowResult(res, Head(rs)), Tail(rs))

\* the loop of extract_from_pdf over the given lines
RECURSIVE PdfResult(_, _)
PdfResult(res, ls) ==
  IF ls = << >> THEN res ELSE PdfResult(PdfLineResult(res, Head(ls)), Tail(ls))

Suffixes == {".xlsx", ".xlsm", ".pdf", ".txt"}

\* what the uploaded spreadsheet may hold
UploadedRows ==
  SeqsUpTo({<< StrCell(KEY_MAIL), StrCell(<< 98 >>) >>,
            << StrCell(KEY_AGE), IntCell(7) >>,
            << StrCell(KEY_MAIL), StrCell(<< SPACE >>) >>,
            << StrCell(KEY_AGE), StrCell(<< BACKSLASH, 49 >>) >>}, MaxRows)

\* what the text of the uploaded PDF (text layer or OCR) may be
UploadedTexts ==
  {JoinLines(ls) : ls \in SeqsUpTo({KEY_MAIL \o << COLON, 98 >>,
                                     KEY_AGE \o << FW_COLON, 57 >>}, MaxPages)}

\* the paragraphs of template.docx (body, tables, headers and footers), each
\* the texts of its runs
TemplateDoc ==
  << << << LBRACE, LBRACE >>, KEY_MAIL, << RBRACE, RBRACE >> >>,
     << Placeholder(KEY_AGE) \o << 120 >> >>,
     << >> >>

\* completed = {k: extracted.get(k, "") for k in PLACEHOLDER_KEYS}
Completed(ex) ==
  [i \in 1..NumKeys |->
     << PLACEHOLDER_KEYS[i],
        IF PLACEHOLDER_KEYS[i] \in DOMAIN ex THEN ex[PLACEHOLDER_KEYS[i]] ELSE EmptyStr >>]

\* fill_docx_placeholders: _replace_in_paragraph on every paragraph
FillDoc(doc, m) ==
  LET rs == [i \in 1..Len(doc) |-> _replace_in_paragraph(doc[i], m)]
  IN  [raised |-> \E i \in 1..Len(doc) : rs[i].raised,
       doc |-> [i \in 1..Len(doc) |-> rs[i].runs]]

NoOutput == [docx |-> << >>, filled_count |-> 0, missing_keys |-> << >>]

ProcessInit ==
  /\ upload \in Suffixes /\ template_exists \in BOOLEAN
  /\ tmpdir = FALSE /\ written = FALSE /\ extractor_calls = << >>
  /\ extracted = EmptyDict /\ completed = << >> /\ output = NoOutput
  /\ ppc = "mkdtemp"
  /\ ResolveIdle /\ ExtractIdle /\ FillIdle

\* tmpdir = Path(tempfile.mkdtemp(dir=STORAGE_DIR))
ProcMkdtemp ==
  /\ ppc = "mkdtemp"
  /\ tmpdir' = TRUE
  /\ ppc' = "write"
  /\ UNCHANGED << upload, template_exists, written, extractor_calls, extracted,
                  completed, output, resolveVars, extractVars, fillVars >>

\* shutil.copyfileobj(file.file, f)
ProcWriteUpload ==
  /\ ppc = "write"
  /\ written' = TRUE
  /\ ppc' = "extract"
  /\ UNCHANGED << upload, template_exists, tmpdir, extractor_calls, extracted,
                  completed, output, resolveVars, extractVars, fillVars >>

\* the dispatch on the suffix: the extractor returns a mapping or raises
ProcExtract ==
  /\ ppc = "extract"
  /\ \/ /\ upload \in {".xlsx", ".xlsm"}
        /\ extractor_calls' = Append(extractor_calls, "extract_from_excel")
        /\ \/ \E rs \in UploadedRows :
                extracted' = ExcelResult(EmptyDict, rs) /\ ppc' = "complete"
           \/ ppc' = "raised" /\ UNCHANGED extracted
     \/ /\ upload = ".pdf"
        /\ extractor_calls' = Append(extractor_calls, "extract_from_pdf")
        /\ \/ \E t \in UploadedTexts :
                extracted' = PdfResult(EmptyDict, SplitLines(t, EmptyStr))
                /\ ppc' = "complete"
           \/ ppc' = "raised" /\ UNCHANGED extracted
     \/ /\ upload \notin {".xlsx", ".xlsm", ".pdf"}
        /\ ppc' = "complete"
        /\ UNCHANGED << extractor_calls, extracted >>
  /\ UNCHANGED << upload, template_exists, tmpdir, written, completed, output,
                  resolveVars, extractVars, fillVars >>

ProcComplete ==
  /\ ppc = "complete"
  /\ completed' = Completed(extracted)
  /\ ppc' = "template"
  /\ UNCHANGED << upload, template_exists, tmpdir, written, extractor_calls,
                  extracted, output, resolveVars, extractVars, fillVars >>

\* if not template_path.exists(): raise HTTPException(500, ...)
ProcCheckTemplate ==
  /\ ppc = "template"
  /\ \/ ~template_exists /\ ppc' = "raised_500"
     \/ template_exists /\ ppc' = "fill"
  /\ UNCHANGED << upload, template_exists, tmpdir, written, extractor_calls,
                  extracted, completed, output, resolveVars, extractVars, fillVars >>

\* fill_docx_placeholders, then the report and the response
ProcFill ==
  /\ ppc = "fill"
  /\ LET f == FillDoc(TemplateDoc, completed)
     IN  \/ /\ f.raised
            /\ ppc' = "raised"
            /\ UNCHANGED output
         \/ /\ ~f.raised
            /\ output' =
                 [docx |-> f.doc,
                  filled_count |->
                    Cardinality({i \in 1..Len(completed) : completed[i][2] # EmptyStr}),
                  missing_keys |->
                    SelectSeq([i \in 1..Len(completed) |->
                                 IF completed[i][2] = EmptyStr THEN completed[i][1]
                                 ELSE None], LAMBDA k : k # None)]
            /\ ppc' = "responded"
  /\ UNCHANGED << upload, template_exists, tmpdir, written, extractor_calls,
                  extracted, completed, resolveVars, extractVars, fillVars >>

ProcessNext ==
  \/ ProcMkdtemp \/ ProcWriteUpload \/ ProcExtract \/ ProcComplete
  \/ ProcCheckTemplate \/ ProcFill

SpecProcess == ProcessInit /\ [][ProcessNext]_vars

\* C9: when template.docx does not exist, the error is raised before the job
\* directory is created, before the upload is written and before any extractor
\* is invoked.
C9_MissingTemplateFirst ==
  ppc = "raised_500" => ~tmpdir /\ ~written /\ extractor_calls = << >>
====
